---- MODULE Spec2Model ----
(***************************************************************************)
(* HAICOR-Explore: the ConceptNet knowledge store (haicor/knowledge) and   *)
(* the trie-based concept extractor (haicor/processes/extractor.py).       *)
(*                                                                         *)
(* Python strings are modelled as sequences of one-character strings, so   *)
(* that splitting, matching and formatting are computed, not assumed.      *)
(* Python's None is the model value None.                                  *)
(***************************************************************************)
EXTENDS Integers, Sequences, FiniteSets, TLC

VARIABLES
    \* ---- ConceptExtractor and one extract() call ----
    trie,       \* self.trie: token -> (matched, sub-trie)
    phrases,    \* history: the token lists the constructor passed to build_trie
    tokens,     \* the tokens the call has consumed so far, in order
    trackers,   \* the local list `trackers` of the call
    output,     \* history: the pairs yielded so far, each with the step that yielded it
    ex_pc,      \* "idle" | "running" | "done"
    \* ---- the concept codec: one URI parsed and serialized again ----
    uri,        \* the URI handed to re.match(CONCEPT_URI, uri)
    concept,    \* the match: found, and Concept(*match.group(1, 2, 3))
    rendered,   \* str(concept)
    codec_pc,   \* "idle" | "start" | "matched" | "nomatch" | "rendered"
    \* ---- the query builder: one where_clause call and the query built on it ----
    kwargs,     \* the named predicates, in argument order
    clause,     \* what where_clause returned: the clause text and the parameters
    statement,  \* the query built around the clause
    clause_pc,  \* "idle" | "start" | "rendered" | "built"
    \* ---- the store: a database file and one ConceptNetStore connection ----
    disk,       \* the committed database: what every other connection reads
    view,       \* the database as the connection sees it (disk plus its open transaction)
    in_tx,      \* sqlite3's Connection.in_transaction
    outcome,    \* the last call: the method, how it ended, what it returned
    call,       \* history: the arguments and the effects of the last populate call
    loaded,     \* history: the source of the populate whose commit made the disk rows
    failed,     \* history: the rows written by populate calls that raised
    store_pc,   \* "idle" | "ready" | "returned"
    \* ---- extract() calls in flight on one ConceptExtractor ----
    calls       \* per call, the locals of its generator: tokens consumed, trackers, ...

ex_vars == <<trie, phrases, tokens, trackers, output, ex_pc>>

codec_vars == <<uri, concept, rendered, codec_pc>>

clause_vars == <<kwargs, clause, statement, clause_pc>>

store_vars == <<disk, view, in_tx, outcome, call, loaded, failed, store_pc>>

pool_vars == <<calls>>

vars == <<ex_vars, codec_vars, clause_vars, store_vars, pool_vars>>

\* Python's None: a value no string of characters is equal to.
None == <<"None">>

Range(s) == {s[i] : i \in 1..Len(s)}

\* All sequences over S of length 0..n.
SeqsUpTo(S, n) == UNION {[1..k -> S] : k \in 0..n}

\* All subsets of S with at most n elements.
RECURSIVE SubsetsUpTo(_, _)
SubsetsUpTo(S, n) ==
    IF n = 0
    THEN {{}}
    ELSE LET smaller == SubsetsUpTo(S, n - 1)
         IN  smaller \cup {d \cup {x} : d \in smaller, x \in S}

\* The values of the variables of a component that a specification leaves out.
ExtractIdle ==
    /\ trie = <<>>
    /\ phrases = {}
    /\ tokens = <<>>
    /\ trackers = <<>>
    /\ output = <<>>
    /\ ex_pc = "idle"

CodecIdle ==
    /\ uri = <<>>
    /\ concept = <<>>
    /\ rendered = <<>>
    /\ codec_pc = "idle"

ClauseIdle ==
    /\ kwargs = <<>>
    /\ clause = <<>>
    /\ statement = <<>>
    /\ clause_pc = "idle"

PoolIdle == calls = <<>>

StoreIdle ==
    /\ disk = <<>>
    /\ view = <<>>
    /\ in_tx = FALSE
    /\ outcome = <<>>
    /\ call = <<>>
    /\ loaded = <<>>
    /\ failed = <<>>
    /\ store_pc = "idle"

(***************************************************************************)
(* The concept codec: CONCEPT_URI and Concept.__str__.                     *)
(***************************************************************************)

MaxUriTail == 4     \* characters of a URI after "/c/en/"

Namespace == <<"/", "c", "/", "e", "n", "/">>
Newline == "\n"
\* The characters URIs are drawn from: the separator, a word character (\w), a
\* character that is neither, and the line break.
UriChars == {"/", "a", "-", Newline}
\* The class \w, within UriChars and the characters of the store's URIs.
WordClass == {"a", "b", "n", "x"}
ConceptUris == {Namespace \o t : t \in SeqsUpTo(UriChars, MaxUriTail)}

Max(S) == CHOOSE x \in S : \A y \in S : y <= x
Min(S) == CHOOSE x \in S : \A y \in S : x <= y

\* `$` without re.MULTILINE: at the end of the string, and also just before a
\* line break that is the string's last character.
AtEnd(u, r) == r = Len(u) + 1 \/ (r = Len(u) /\ u[r] = Newline)

\* `/?$` at position r: the greedy `/?` takes a slash first, then gives it back.
TrailingSlashOk(u, r) ==
    \/ r <= Len(u) /\ u[r] = "/" /\ AtEnd(u, r + 1)
    \/ AtEnd(u, r)

\* `(?:/(.+?))?/?$` at position q. The group is tried first; its lazy `.+?` takes
\* the fewest characters (none of them a line break) that let the rest match.
SuffixGroup(u, q) ==
    LET lens == {k \in 1..(Len(u) - q) :
                    /\ u[q] = "/"
                    /\ \A j \in (q + 1)..(q + k) : u[j] # Newline
                    /\ TrailingSlashOk(u, q + k + 1)}
    IN  IF lens # {}
        THEN [found |-> TRUE, suffix |-> SubSeq(u, q + 1, q + Min(lens))]
        ELSE [found |-> TrailingSlashOk(u, q), suffix |-> None]

\* `(?:/(\w))?(?:/(.+?))?/?$` at position p: the speech group is tried first, and
\* skipped when the rest cannot match after it.
SpeechGroup(u, p) ==
    IF /\ p + 1 <= Len(u)
       /\ u[p] = "/"
       /\ u[p + 1] \in WordClass
       /\ SuffixGroup(u, p + 2).found
    THEN [found |-> TRUE, speech |-> <<u[p + 1]>>, suffix |-> SuffixGroup(u, p + 2).suffix]
    ELSE [found |-> SuffixGroup(u, p).found, speech |-> None,
          suffix |-> SuffixGroup(u, p).suffix]

\* re.match(CONCEPT_URI, uri) and match.group(1, 2, 3): the greedy `[^/]+` takes
\* the longest run of non-slash characters that lets the rest match.
CONCEPT_URI(u) ==
    LET first == Len(Namespace) + 1
        ends == {e \in first..Len(u) :
                    /\ \A j \in first..e : u[j] # "/"
                    /\ SpeechGroup(u, e + 1).found}
    IN  IF Len(u) >= Len(Namespace) /\ SubSeq(u, 1, Len(Namespace)) = Namespace /\ ends # {}
        THEN LET e == Max(ends)
             IN  [found |-> TRUE,
                  text |-> SubSeq(u, first, e),
                  speech |-> SpeechGroup(u, e + 1).speech,
                  suffix |-> SpeechGroup(u, e + 1).suffix]
        ELSE [found |-> FALSE, text |-> None, speech |-> None, suffix |-> None]

\* Python truth of an Optional[str]: None and "" are false.
Truthy(x) == x # None /\ x # <<>>

\* Concept.__str__
ConceptStr(c) ==
    Namespace \o c.text
        \o (IF Truthy(c.speech) THEN <<"/">> \o c.speech ELSE <<>>)
        \o (IF Truthy(c.suffix) THEN <<"/">> \o c.suffix ELSE <<>>)

\* uri[:-1]
DropLast(u) == IF u = <<>> THEN <<>> ELSE SubSeq(u, 1, Len(u) - 1)

\* populate's concept check: str(concept) != uri and str(concept) != uri[:-1]
ConceptMismatch(c, u) == ConceptStr(c) # u /\ ConceptStr(c) # DropLast(u)

CodecInit ==
    /\ uri \in ConceptUris
    /\ concept = <<>>
    /\ rendered = <<>>
    /\ codec_pc = "start"
    /\ ExtractIdle
    /\ ClauseIdle
    /\ StoreIdle
    /\ PoolIdle

\* match := re.match(CONCEPT_URI, uri); concept = Concept(*match.group(1, 2, 3))
CodecParse ==
    /\ codec_pc = "start"
    /\ LET m == CONCEPT_URI(uri)
       IN  /\ concept' = m
           /\ codec_pc' = IF m.found THEN "matched" ELSE "nomatch"
    /\ UNCHANGED <<uri, rendered>>
    /\ UNCHANGED <<ex_vars, clause_vars, store_vars, pool_vars>>

\* str(concept)
CodecRender ==
    /\ codec_pc = "matched"
    /\ rendered' = ConceptStr(concept)
    /\ codec_pc' = "rendered"
    /\ UNCHANGED <<uri, concept>>
    /\ UNCHANGED <<ex_vars, clause_vars, store_vars, pool_vars>>

CodecNext == CodecParse \/ CodecRender

CodecSpec == CodecInit /\ [][CodecNext]_vars

\* C7: for every URI that matches the grammar, str(Concept(groups)) is the URI, or
\* the URI with exactly one trailing slash removed, and the verification of
\* populate raises no concept mismatch for it.
C7_RoundTrip ==
    codec_pc = "rendered" =>
        /\ \/ rendered = uri
           \/ uri[Len(uri)] = "/" /\ rendered = DropLast(uri)
        /\ ~ConceptMismatch(concept, uri)

(***************************************************************************)
(* The query builder: in_clause, equal_clause, where_clause.               *)
(* SQL text is a sequence of fragments; a Python value is its type and its *)
(* items (a scalar has one item, its own representation).                  *)
(***************************************************************************)

MaxArgs == 3        \* named predicates of a where_clause call
MaxTupleLen == 2    \* elements of a tuple or list value

NoneValue == [kind |-> "NoneType", items |-> <<>>]
Scalar(x) == [kind |-> "scalar", items |-> <<x>>]
TupleOf(xs) == [kind |-> "tuple", items |-> xs]
ListOf(xs) == [kind |-> "list", items |-> xs]

ItemValues == {"1", "2"}
ArgValues ==
    {NoneValue, Scalar("5")}
        \cup {TupleOf(xs) : xs \in SeqsUpTo(ItemValues, MaxTupleLen)}
        \cup {ListOf(xs) : xs \in SeqsUpTo({"1"}, MaxTupleLen)}
ArgNames == <<"a", "b", "c", "d", "e">>
KwargsSets ==
    {[k \in 1..Len(vs) |-> [field |-> ArgNames[k], value |-> vs[k]]] :
        vs \in SeqsUpTo(ArgValues, MaxArgs)}

\* sep.join(parts)
RECURSIVE JoinWith(_, _)
JoinWith(sep, parts) ==
    IF parts = <<>> THEN <<>>
    ELSE IF Len(parts) = 1 THEN parts[1]
    ELSE parts[1] \o <<sep>> \o JoinWith(sep, Tail(parts))

\* The text Python's f-string gives a tuple: (), (1,), (1, 2).
TupleRepr(items) ==
    <<"(">> \o JoinWith(", ", [k \in 1..Len(items) |-> <<items[k]>>])
          \o (IF Len(items) = 1 THEN <<",">> ELSE <<>>)
          \o <<")">>

in_clause(field, value) == <<field, " IN ">> \o TupleRepr(value.items)

equal_clause_interpolated(field, value) ==
    [clause |-> <<field, " == ">> \o value.items, parameter |-> value]

equal_clause(field, value) == [clause |-> <<field, " == ?">>, parameter |-> value]

\* isinstance(value, tuple)
IsTuple(value) == value.kind = "tuple"

\* The for loop of where_clause over kwargs.items(), from slot i on.
RECURSIVE WhereLoop(_, _)
WhereLoop(kw, i) ==
    IF i > Len(kw)
    THEN [clauses |-> <<>>, parameters |-> <<>>]
    ELSE LET field == kw[i].field
             value == kw[i].value
             rest == WhereLoop(kw, i + 1)
         IN  IF value = NoneValue
             THEN rest
             ELSE IF IsTuple(value)
                  THEN [clauses |-> <<in_clause(field, value)>> \o rest.clauses,
                        parameters |-> rest.parameters]
                  ELSE [clauses |-> <<equal_clause(field, value).clause>> \o rest.clauses,
                        parameters |-> <<equal_clause(field, value).parameter>>
                                           \o rest.parameters]

\* return " AND ".join(clauses), tuple(parameters)
Joint(loop) == [text |-> JoinWith(" AND ", loop.clauses), params |-> loop.parameters]

where_clause(kw) == Joint(WhereLoop(kw, 1))

\* select + (f" WHERE {statement}" if statement else "")
WithWhere(select, text) ==
    select \o (IF text # <<>> THEN <<" WHERE ">> \o text ELSE <<>>)

SelectConcepts == <<"SELECT id, text, speech, suffix FROM concepts">>

\* return statement, parameters
Query(select, w) == [statement |-> WithWhere(select, w.text), params |-> w.params]

concept_clause(text, speech, suffix) ==
    Query(SelectConcepts,
          where_clause(<<[field |-> "text", value |-> text],
                         [field |-> "speech", value |-> speech],
                         [field |-> "suffix", value |-> suffix]>>))

ClauseInit ==
    /\ kwargs \in KwargsSets
    /\ clause = <<>>
    /\ statement = <<>>
    /\ clause_pc = "start"
    /\ ExtractIdle
    /\ CodecIdle
    /\ StoreIdle
    /\ PoolIdle

\* statement, parameters = ConceptNetStore.where_clause(**kwargs)
ClauseRender ==
    /\ clause_pc = "start"
    /\ clause' = where_clause(kwargs)
    /\ clause_pc' = "rendered"
    /\ UNCHANGED <<kwargs, statement>>
    /\ UNCHANGED <<ex_vars, codec_vars, store_vars, pool_vars>>

\* statement = "SELECT ..." + (f" WHERE {statement}" if statement else "")
ClauseBuild ==
    /\ clause_pc = "rendered"
    /\ statement' = WithWhere(SelectConcepts, clause.text)
    /\ clause_pc' = "built"
    /\ UNCHANGED <<kwargs, clause>>
    /\ UNCHANGED <<ex_vars, codec_vars, store_vars, pool_vars>>

ClauseNext == ClauseRender \/ ClauseBuild

ClauseSpec == ClauseInit /\ [][ClauseNext]_vars

\* ---- the clause text as SQLite reads it ----

\* The pieces of a text between the occurrences of a separator fragment.
RECURSIVE SplitAt(_, _, _)
SplitAt(text, sep, piece) ==
    IF text = <<>> THEN <<piece>>
    ELSE IF Head(text) = sep THEN <<piece>> \o SplitAt(Tail(text), sep, <<>>)
    ELSE SplitAt(Tail(text), sep, Append(piece, Head(text)))

ClausesOf(text) == IF text = <<>> THEN <<>> ELSE SplitAt(text, " AND ", <<>>)

\* The elements a rendered list "(...)" names: its fragments without the
\* brackets and the separators.
ListElements(list) ==
    SelectSeq(list, LAMBDA f : f \notin {"(", ")", ", ", ","})

\* ---- properties of the query builder ----

\* What C6 says of a where_clause call, with InTest telling the values that are to
\* become set-membership tests.
WhereClauseContract(InTest(_)) ==
    LET present == SelectSeq(kwargs, LAMBDA a : a.value # NoneValue)
        bound == SelectSeq(present, LAMBDA a : ~InTest(a.value))
        parts == ClausesOf(clause.text)
    IN  /\ Len(parts) = Len(present)
        /\ \A k \in 1..Len(present) :
              IF InTest(present[k].value)
              THEN /\ Len(parts[k]) >= 4
                   /\ parts[k][1] = present[k].field
                   /\ parts[k][2] = " IN "
                   /\ parts[k][3] = "("
                   /\ parts[k][Len(parts[k])] = ")"
                   /\ ListElements(SubSeq(parts[k], 3, Len(parts[k]))) = present[k].value.items
              ELSE /\ parts[k] = <<present[k].field, " == ?">>
                   /\ \A x \in Range(present[k].value.items) : x \notin Range(parts[k])
        /\ clause.params = [k \in 1..Len(bound) |-> bound[k].value]
        /\ present = <<>> => clause.text = <<>> /\ clause.params = <<>>
        /\ clause_pc = "built" =>
              /\ present = <<>> => statement = SelectConcepts
              /\ present # <<>> => statement = SelectConcepts \o <<" WHERE ">> \o clause.text

ExampleWhere ==
    where_clause(<<[field |-> "a", value |-> Scalar("5")],
                   [field |-> "b", value |-> TupleOf(<<"1", "2", "3">>)]>>)
        = [text |-> <<"a", " == ?", " AND ", "b", " IN ", "(", "1", ", ", "2", ", ", "3", ")">>,
           params |-> <<Scalar("5")>>]

\* C6 as stated: every value that is a sequence, of any sequence type, becomes a
\* set-membership test; every other value an equality test bound as a parameter.
C6_AnySequenceIsMembership ==
    clause_pc \in {"rendered", "built"} =>
        WhereClauseContract(LAMBDA v : v.kind \in {"tuple", "list"})

\* The list of every tuple predicate is the tuple as Python writes it: "()" for
\* no element, "(x,)" for one, "(x, y, ...)" for more.
TupleTextIsPythons ==
    LET present == SelectSeq(kwargs, LAMBDA a : a.value # NoneValue)
        parts == ClausesOf(clause.text)
    IN  \A k \in 1..Len(present) :
            present[k].value.kind = "tuple" =>
                LET items == present[k].value.items
                    list == SubSeq(parts[k], 3, Len(parts[k]))
                IN  IF Len(items) = 1
                    THEN list = <<"(", items[1], ",", ")">>
                    ELSE /\ "," \notin Range(list)
                         /\ Len(list) = IF items = <<>> THEN 2 ELSE 2 * Len(items) + 1

\* C6, amended: one clause per predicate that is not None, in argument order,
\* joined by AND; a tuple becomes 'field IN (...)' over its elements, the list
\* being the tuple as Python writes it; every other value, a list included,
\* becomes 'field == ?' with the value appended to the parameters and not written
\* into the text; with no predicate left the text and the parameters are empty
\* and the query has no WHERE.
C6_TupleIsMembership ==
    /\ clause_pc \in {"rendered", "built"} =>
          /\ WhereClauseContract(LAMBDA v : v.kind = "tuple")
          /\ TupleTextIsPythons
    /\ ExampleWhere

\* A built query over a None, a tuple of two elements and a list.
C6_Witness ==
    /\ clause_pc = "built"
    /\ \E i, j, k \in 1..Len(kwargs) :
          /\ kwargs[i].value = NoneValue
          /\ kwargs[j].value.kind = "tuple" /\ Len(kwargs[j].value.items) = 2
          /\ kwargs[k].value.kind = "list" /\ kwargs[k].value.items # <<>>

(***************************************************************************)
(* The extractor.                                                          *)
(***************************************************************************)

\* ---- bounds ----
MaxPhraseLen == 3   \* characters of a dictionary phrase string
MaxDict == 2        \* phrase strings of a dictionary
MaxTokens == 3      \* tokens of an extract() call

Whitespace == {" "}
WordChars == {"h", "d"}
PhraseStrings == SeqsUpTo(WordChars \cup Whitespace, MaxPhraseLen)
Dictionaries == SubsetsUpTo(PhraseStrings, MaxDict)
\* The tokens a tokenizer may hand to extract(): words without whitespace.
TokenWords == {<<"h">>, <<"d">>}

\* str.split(): the maximal runs of non-whitespace characters, in order.
RECURSIVE SplitFrom(_, _, _)
SplitFrom(s, i, word) ==
    IF i > Len(s)
    THEN IF word = <<>> THEN <<>> ELSE <<word>>
    ELSE IF s[i] \in Whitespace
         THEN (IF word = <<>> THEN <<>> ELSE <<word>>) \o SplitFrom(s, i + 1, <<>>)
         ELSE SplitFrom(s, i + 1, Append(word, s[i]))

split(s) == SplitFrom(s, 1, <<>>)

\* The inner function trie(head, tails) of build_trie. `tails` is the list of
\* (remaining) token lists, held as a function from list slots to token lists:
\* the code only tests membership of [] and groups the rest by first token, so
\* repeated entries are kept. A node is (match, {token: node}).
RECURSIVE trie_node(_, _)
trie_node(head, tails) ==
    LET match == \E k \in DOMAIN tails : tails[k] = <<>>
        rest == {k \in DOMAIN tails : tails[k] # <<>>}
        heads == {tails[k][1] : k \in rest}
    IN  [matched |-> match,
         children |-> [h \in heads |->
                          trie_node(h, [k \in {j \in rest : tails[j][1] = h} |-> Tail(tails[k])])]]

build_trie(dictionary) == trie_node(None, dictionary).children

\* ConceptExtractor.__init__: the dictionary's strings are split, the trie built.
ConstructorTails(dictionary) == [p \in dictionary |-> split(p)]

\* trackers + [((start, []), self.trie)]
CandidatesNewFirst(trackerList, start, root) ==
    <<[start |-> start, match |-> <<>>, trie |-> root]>> \o trackerList

CandidatesOnlyWhenIdle(trackerList, start, root) ==
    IF trackerList = <<>>
    THEN <<[start |-> start, match |-> <<>>, trie |-> root]>>
    ELSE trackerList

Candidates(trackerList, start, root) ==
    trackerList \o <<[start |-> start, match |-> <<>>, trie |-> root]>>

\* The inner for loop over the candidates from slot i on: the trackers appended to
\* `updated` and the pairs yielded, in order.
RECURSIVE InnerLoopKeepAll(_, _, _)
InnerLoopKeepAll(cands, token, i) ==
    IF i > Len(cands)
    THEN [updated |-> <<>>, yielded |-> <<>>]
    ELSE LET c == cands[i]
             rest == InnerLoopKeepAll(cands, token, i + 1)
         IN  IF token \in DOMAIN c.trie
             THEN LET node == c.trie[token]
                      m == Append(c.match, token)
                  IN  [updated |-> <<[start |-> c.start, match |-> m,
                                      trie |-> node.children]>> \o rest.updated,
                       yielded |-> (IF node.matched THEN <<[start |-> c.start, match |-> m]>>
                                    ELSE <<>>) \o rest.yielded]
             ELSE [updated |-> <<c>> \o rest.updated, yielded |-> rest.yielded]

RECURSIVE InnerLoop(_, _, _)
InnerLoop(cands, token, i) ==
    IF i > Len(cands)
    THEN [updated |-> <<>>, yielded |-> <<>>]
    ELSE LET c == cands[i]
             rest == InnerLoop(cands, token, i + 1)
         IN  IF token \in DOMAIN c.trie
             THEN LET node == c.trie[token]
                      m == Append(c.match, token)
                  IN  [updated |-> <<[start |-> c.start, match |-> m,
                                      trie |-> node.children]>> \o rest.updated,
                       yielded |-> (IF node.matched THEN <<[start |-> c.start, match |-> m]>>
                                    ELSE <<>>) \o rest.yielded]
             ELSE rest

ExtractIterationNoPrune(root, trackerList, start, token) ==
    InnerLoopKeepAll(Candidates(trackerList, start, root), token, 1)

\* One iteration of `for start, token in enumerate(tokens)`.
ExtractIteration(root, trackerList, start, token) ==
    InnerLoop(Candidates(trackerList, start, root), token, 1)

\* extract() run to the end on a whole token list: everything it yields, in order.
RECURSIVE ExtractFrom(_, _, _, _)
ExtractFrom(root, toks, start, trackerList) ==
    IF start >= Len(toks)
    THEN <<>>
    ELSE LET it == ExtractIteration(root, trackerList, start, toks[start + 1])
         IN  it.yielded \o ExtractFrom(root, toks, start + 1, it.updated)

extract(root, toks) == ExtractFrom(root, toks, 0, <<>>)

\* ---- the state machine of one extract() call ----

ExtractInit ==
    /\ \E dictionary \in Dictionaries :
          /\ phrases = {split(p) : p \in dictionary}
          /\ trie = build_trie(ConstructorTails(dictionary))
    /\ tokens = <<>>
    /\ trackers = <<>>
    /\ output = <<>>
    /\ ex_pc = "running"
    /\ CodecIdle
    /\ ClauseIdle
    /\ StoreIdle
    /\ PoolIdle

\* The generator takes the next token from the iterable and runs one iteration.
ExtractStep(token) ==
    /\ ex_pc = "running"
    /\ Len(tokens) < MaxTokens
    /\ LET it == ExtractIteration(trie, trackers, Len(tokens), token)
       IN  /\ trackers' = it.updated
           /\ output' = output \o [k \in 1..Len(it.yielded) |->
                                     [start |-> it.yielded[k].start,
                                      match |-> it.yielded[k].match,
                                      at |-> Len(tokens)]]
    /\ tokens' = Append(tokens, token)
    /\ UNCHANGED <<trie, phrases, ex_pc>>
    /\ UNCHANGED <<codec_vars, clause_vars, store_vars, pool_vars>>

\* The iterable is exhausted: the generator returns and its locals are gone.
ExtractReturn ==
    /\ ex_pc = "running"
    /\ ex_pc' = "done"
    /\ trackers' = <<>>
    /\ UNCHANGED <<trie, phrases, tokens, output>>
    /\ UNCHANGED <<codec_vars, clause_vars, store_vars, pool_vars>>

ExtractNext ==
    \/ \E token \in TokenWords : ExtractStep(token)
    \/ ExtractReturn

ExtractSpec == ExtractInit /\ [][ExtractNext]_vars

\* ---- properties of the extractor ----

\* The occurrences of dictionary phrases in toks: (s, p) with p a non-empty token
\* list of the dictionary and toks[s .. s+len(p)-1] = p (s counts from 0).
Occurrences(ph, toks) ==
    {c \in (0..(Len(toks) - 1)) \X (ph \ {<<>>}) :
        /\ c[1] + Len(c[2]) <= Len(toks)
        /\ SubSeq(toks, c[1] + 1, c[1] + Len(c[2])) = c[2]}

OutputPairs == [k \in 1..Len(output) |-> <<output[k].start, output[k].match>>]

\* C1: extract yields exactly the occurrences of the dictionary's non-empty phrases
\* in the tokens consumed so far, and each of them exactly once.
C1_ExtractYieldsExactlyOccurrences ==
    /\ Range(OutputPairs) = Occurrences(phrases, tokens)
    /\ \A i, j \in 1..Len(output) : i # j => OutputPairs[i] # OutputPairs[j]

\* A finished call that yielded two overlapping occurrences with different starts
\* and a shorter phrase nested as a prefix of a longer one.
C1_Witness ==
    /\ ex_pc = "done"
    /\ \E i, j \in 1..Len(output) :
          /\ output[i].start < output[j].start
          /\ output[j].start <= output[i].start + Len(output[i].match) - 1
    /\ \E i, j \in 1..Len(output) :
          /\ output[i].start = output[j].start
          /\ Len(output[i].match) < Len(output[j].match)

ExampleDictionary ==
    {<<"d", "o", "g">>, <<"h", "o", "t", " ", "d", "o", "g">>, <<"h", "o", "t">>}

ExampleTokens ==
    <<<<"i", "t">>, <<"i", "s">>, <<"a">>, <<"h", "o", "t">>, <<"d", "o", "g">>>>

ExampleOutput ==
    <<[start |-> 3, match |-> <<<<"h", "o", "t">>>>],
      [start |-> 3, match |-> <<<<"h", "o", "t">>, <<"d", "o", "g">>>>],
      [start |-> 4, match |-> <<<<"d", "o", "g">>>>]>>

ExampleHolds ==
    extract(build_trie(ConstructorTails(ExampleDictionary)), ExampleTokens) = ExampleOutput

\* C8: pairs are yielded in ascending order of the completing token, then of
\* start_index, each at the step that consumes its last token; and the dictionary
\* {"dog", "hot dog", "hot"} on it/is/a/hot/dog gives (3,hot), (3,hot dog), (4,dog).
C8_YieldOrder ==
    /\ \A k \in 1..Len(output) :
          output[k].at = output[k].start + Len(output[k].match) - 1
    /\ \A i, j \in 1..Len(output) :
          i < j => \/ output[i].at < output[j].at
                   \/ /\ output[i].at = output[j].at
                      /\ output[i].start < output[j].start
    /\ ExampleHolds

\* A finished call in which one token completed two matches and another token a third.
C8_Witness ==
    /\ ex_pc = "done"
    /\ \E i, j, k \in 1..Len(output) :
          /\ i < j
          /\ output[i].at = output[j].at
          /\ output[k].at # output[i].at

\* The number of tokens of the longest dictionary phrase.
LongestPhrase == IF phrases = {} THEN 0
                 ELSE CHOOSE n \in {Len(p) : p \in phrases} :
                         \A p \in phrases : Len(p) <= n

\* The sub-trie reached from `node` along `path`; found is FALSE when the path
\* leaves the trie.
RECURSIVE Walk(_, _)
Walk(node, path) ==
    IF path = <<>> THEN [found |-> TRUE, node |-> node]
    ELSE IF Head(path) \in DOMAIN node
         THEN Walk(node[Head(path)].children, Tail(path))
         ELSE [found |-> FALSE, node |-> <<>>]

\* C10: after each token the live trackers are at most as many as the longest
\* phrase has tokens, their starts are distinct and ascending, and a tracker with
\* start s has matched exactly tokens[s..i], a path of the trie.
C10_TrackersBounded ==
    /\ Len(trackers) <= LongestPhrase
    /\ \A i, j \in 1..Len(trackers) : i < j => trackers[i].start < trackers[j].start
    /\ \A k \in 1..Len(trackers) :
          /\ trackers[k].match = SubSeq(tokens, trackers[k].start + 1, Len(tokens))
          /\ trackers[k].match # <<>>
          /\ Walk(trie, trackers[k].match).found
          /\ trackers[k].trie = Walk(trie, trackers[k].match).node

\* Two trackers alive at once under a dictionary whose longest phrase has two tokens.
C10_Witness ==
    /\ ex_pc = "running"
    /\ LongestPhrase = 2
    /\ Len(trackers) = 2

(***************************************************************************)
(* Several extract() calls in flight on one ConceptExtractor. A call is a  *)
(* generator: its tokens, its tracker list and its position are locals of  *)
(* its own frame; self.trie is the one thing the calls have in common.     *)
(***************************************************************************)

MaxCalls == 2       \* extract() calls in flight
MaxInput == 2       \* tokens of each call

CallIds == 1..MaxCalls

\* The dictionaries the shared extractor is built from.
PoolDictionaries ==
    {{<<"h">>, <<"h", " ", "d">>},
     {<<"d">>, <<"h", " ", "d">>},
     {<<"h", " ", "h">>}}

\* The frame of a generator that has not run yet: trackers = []
NewFrame == [tokens |-> <<>>, trackers |-> <<>>, output |-> <<>>, pc |-> "running"]

\* The tracker list a step of call c reads, were it kept on the extractor and not
\* in the call: every call would read the list of the first.
TrackersOnExtractor(frames, c) == frames[Min(DOMAIN frames)].trackers

\* The tracker list a step of call c reads: the local `trackers` of its frame.
TrackersOf(frames, c) == frames[c].trackers

PoolInit ==
    /\ \E dictionary \in PoolDictionaries :
          /\ phrases = {split(p) : p \in dictionary}
          /\ trie = build_trie(ConstructorTails(dictionary))
    /\ calls = [c \in CallIds |-> NewFrame]
    /\ tokens = <<>>
    /\ trackers = <<>>
    /\ output = <<>>
    /\ ex_pc = "idle"
    /\ CodecIdle
    /\ ClauseIdle
    /\ StoreIdle

\* next() on the generator of call c until the iteration over its next token is
\* over: the candidates are the call's trackers and a new one at self.trie.
PoolStep(c, token) ==
    /\ calls[c].pc = "running"
    /\ Len(calls[c].tokens) < MaxInput
    /\ calls' = [calls EXCEPT
          ![c].tokens = Append(@, token),
          ![c].trackers =
              ExtractIteration(trie, TrackersOf(calls, c), Len(calls[c].tokens), token).updated,
          ![c].output = @ \o
              ExtractIteration(trie, TrackersOf(calls, c), Len(calls[c].tokens), token).yielded]
    /\ UNCHANGED <<ex_vars, codec_vars, clause_vars, store_vars>>

\* The tokens of call c are exhausted: its generator returns.
PoolReturn(c) ==
    /\ calls[c].pc = "running"
    /\ calls' = [calls EXCEPT ![c].pc = "done", ![c].trackers = <<>>]
    /\ UNCHANGED <<ex_vars, codec_vars, clause_vars, store_vars>>

PoolNext ==
    \/ \E c \in CallIds, token \in TokenWords : PoolStep(c, token)
    \/ \E c \in CallIds : PoolReturn(c)

PoolSpec == PoolInit /\ [][PoolNext]_vars

\* ---- properties of the calls in flight ----

\* What call c has yielded is what extract yields when run alone on the tokens
\* the call has consumed.
YieldsAsAlone(c) == calls[c].output = extract(trie, calls[c].tokens)

\* A step leaves the trie as it is and changes the frame of one call at most.
StepIsLocal ==
    /\ trie' = trie
    /\ \A c, d \in CallIds : c # d => calls'[c] = calls[c] \/ calls'[d] = calls[d]

\* C11: with the steps of the calls interleaved in any order, every call has
\* yielded, in order, what it yields run alone on its tokens; calls with the same
\* tokens have yielded the same; and no step changes the trie or the trackers of
\* a call other than the one that steps.
C11_CallsAreIndependent ==
    /\ [](\A c \in CallIds : YieldsAsAlone(c))
    /\ [](\A c, d \in CallIds :
             calls[c].tokens = calls[d].tokens => calls[c].output = calls[d].output)
    /\ [][StepIsLocal]_vars

\* Two calls are both in the middle of their tokens, on different tokens, each
\* with a live tracker of its own, and one of them has yielded already.
C11_Witness ==
    \E c, d \in CallIds :
        /\ c # d
        /\ calls[c].pc = "running" /\ calls[d].pc = "running"
        /\ calls[c].tokens # <<>> /\ calls[d].tokens # <<>>
        /\ calls[c].tokens # calls[d].tokens
        /\ calls[c].trackers # <<>> /\ calls[d].trackers # <<>>
        /\ calls[c].trackers # calls[d].trackers
        /\ calls[c].output # <<>>

(***************************************************************************)
(* The store: CREATE_SQL, create, populate, and the connection's           *)
(* transaction as sqlite3 runs it.                                         *)
(***************************************************************************)

MaxRows == 2        \* rows of an assertion source file

\* ---- the inputs ----

UriA == Namespace \o <<"a">>
UriASlash == Namespace \o <<"a", "/">>
UriANX == Namespace \o <<"a", "/", "n", "/", "x">>
UriANXSlash == Namespace \o <<"a", "/", "n", "/", "x", "/">>
UriForeign == <<"/", "c", "/", "f", "r", "/", "a">>
UriNoText == Namespace
UriLineBreak == Namespace \o <<"a", "/", Newline>>

RelIsA == <<"/", "r", "/", "I", "s", "A">>
RelUnlisted == <<"/", "r", "/", "Z", "z">>

\* The info column: a JSON text with a weight, or a text json.loads rejects.
InfoWeight == [json |-> "object", weight |-> 1]
InfoMalformed == [json |-> "malformed", weight |-> 0]

\* The uri column of a well-formed row: /a/[<relation>/,<source>/,<target>/]
AssertionUri(type, source, target) ==
    <<"/", "a", "/", "[">> \o type \o <<"/", ",">> \o source \o <<"/", ",">>
        \o target \o <<"/", "]">>

FileRow(type, source, target, info) ==
    [uri |-> AssertionUri(type, source, target), type |-> type,
     source |-> source, target |-> target, info |-> info]

\* Rows that populate reads to the end of its first loop.
SoundRows ==
    {FileRow(RelIsA, UriA, UriA, InfoWeight),
     FileRow(RelIsA, UriA, UriASlash, InfoWeight),
     FileRow(RelIsA, UriANX, UriANXSlash, InfoWeight),
     FileRow(RelIsA, UriForeign, UriA, InfoWeight)}

\* Rows with one fault each: a URI without a text, a relation that is not listed,
\* an info text that is no JSON, a URI that ends in a line break.
FaultyRows ==
    {FileRow(RelIsA, UriA, UriNoText, InfoWeight),
     FileRow(RelUnlisted, UriA, UriA, InfoWeight),
     FileRow(RelIsA, UriA, UriA, InfoMalformed),
     FileRow(RelIsA, UriA, UriLineBreak, InfoWeight)}

AssertionRows == SoundRows \cup FaultyRows

\* The assertion files: up to MaxRows sound rows, or one faulty row.
AssertionFiles == SeqsUpTo(SoundRows, MaxRows) \cup {<<r>> : r \in FaultyRows}

\* CONCEPT_URI.match on the concept URIs of the files.
Match == [u \in {r.source : r \in AssertionRows} \cup {r.target : r \in AssertionRows} |->
             CONCEPT_URI(u)]

RelationRowIsA == [relation |-> <<"I", "s", "A">>, directed |-> "directed"]
RelationRowRelatedTo ==
    [relation |-> <<"R", "e", "l", "a", "t", "e", "d", "T", "o">>, directed |-> "undirected"]
RelationFiles == {<<>>, <<RelationRowIsA>>, <<RelationRowIsA, RelationRowRelatedTo>>}

\* ---- the database ----

NoTables == [exists |-> FALSE, concepts |-> {}, relations |-> {}, assertions |-> {}]
\* CREATE_SQL: three empty tables.
CREATE_SQL == [exists |-> TRUE, concepts |-> {}, relations |-> {}, assertions |-> {}]

Rows(db) ==
    {<<"concepts", r>> : r \in db.concepts}
        \cup {<<"relations", r>> : r \in db.relations}
        \cup {<<"assertions", r>> : r \in db.assertions}

\* Whether inserting `row` breaks a constraint of its table. SQLite's UNIQUE takes
\* NULLs as distinct from each other, so a triple with a NULL never collides.
NoConstraint(table, row, rows) == FALSE

Conflict(table, row, rows) ==
    IF table = "concepts"
    THEN \E r \in rows :
            \/ r.id = row.id
            \/ /\ r.text = row.text /\ r.speech = row.speech /\ r.suffix = row.suffix
               /\ row.speech # None /\ row.suffix # None
    ELSE IF table = "relations"
    THEN \E r \in rows : r.id = row.id \/ r.type = row.type
    ELSE \E r \in rows :
            \/ r.id = row.id
            \/ r.type = row.type /\ r.source = row.source /\ r.target = row.target

\* executemany("INSERT ..."): the rows go in one by one; the first that breaks a
\* constraint raises, and the rows before it stay in the open transaction.
RECURSIVE InsertMany(_, _, _, _)
InsertMany(table, rows, new, i) ==
    IF i > Len(new) THEN [rows |-> rows, ok |-> TRUE]
    ELSE IF Conflict(table, new[i], rows) THEN [rows |-> rows, ok |-> FALSE]
    ELSE InsertMany(table, rows \cup {new[i]}, new, i + 1)

\* ---- populate ----

\* source[:6] == "/c/en/"
InNamespace(u) == SubSeq(u, 1, IF Len(u) < 6 THEN Len(u) ELSE 6) = Namespace

\* The dict comprehension over the file: the rows of the namespace keyed by uri, a
\* later row with the same uri replacing the fields of the earlier one in place.
RECURSIVE LoadAssertions(_, _, _)
LoadAssertions(file, i, dict) ==
    IF i > Len(file) THEN dict
    ELSE IF ~(InNamespace(file[i].source) /\ InNamespace(file[i].target))
         THEN LoadAssertions(file, i + 1, dict)
    ELSE IF \E k \in 1..Len(dict) : dict[k].uri = file[i].uri
         THEN LoadAssertions(file, i + 1,
                  [k \in 1..Len(dict) |->
                      IF dict[k].uri = file[i].uri THEN file[i] ELSE dict[k]])
    ELSE LoadAssertions(file, i + 1, Append(dict, file[i]))

\* set(chain.from_iterable(i[1:3] for i in assertions.values()))
ConceptSet(assertions) ==
    {assertions[k].source : k \in 1..Len(assertions)}
        \cup {assertions[k].target : k \in 1..Len(assertions)}

\* The orders in which a set can be iterated.
RECURSIVE Orders(_)
Orders(S) ==
    IF S = {} THEN {<<>>}
    ELSE UNION {{<<x>> \o rest : rest \in Orders(S \ {x})} : x \in S}

\* One iteration of the first loop of populate: how it ends for the URI u.
ConceptEnd(u, verify) ==
    IF ~Match[u].found THEN "RuntimeError"
    ELSE IF verify /\ ConceptMismatch(Match[u], u) THEN "RuntimeWarning"
    ELSE "ok"

\* The first loop of populate over enumerate(set(concepts), start=1): how it ends.
ConceptLoop(order, verify) ==
    IF \A k \in 1..Len(order) : ConceptEnd(order[k], verify) = "ok"
    THEN "ok"
    ELSE ConceptEnd(order[Min({k \in 1..Len(order) : ConceptEnd(order[k], verify) # "ok"})],
                    verify)

\* (i, c.text, c.speech, c.suffix) for i, c in concept_mapping.values()
ConceptRows(order) ==
    [k \in 1..Len(order) |->
        [id |-> k, text |-> Match[order[k]].text,
         speech |-> Match[order[k]].speech,
         suffix |-> Match[order[k]].suffix]]

\* (i, r, d) for r, (i, d) in relation_mapping.items()
RelationRows(relations) ==
    [k \in 1..Len(relations) |->
        [id |-> k, type |-> relations[k].relation,
         direct |-> relations[k].directed = "directed"]]

\* relation[3:]
RelationName(relation) == SubSeq(relation, 4, Len(relation))

\* The fields of the dataclass Assertion, which its __init__ takes in this order.
AssertionFields == <<"type", "source", "target">>
\* Assertion(*args): a TypeError when more arguments are given than fields exist.
AssertionInit(args) == Len(args) <= Len(AssertionFields)

\* Assertion.__str__
AssertionStr(type, source, target) ==
    <<"/", "a", "/", "[">> \o type \o <<"/", ",">> \o ConceptStr(source) \o <<"/", ",">>
        \o ConceptStr(target) \o <<"/", "]">>

IdOf(order, u) == CHOOSE k \in 1..Len(order) : order[k] = u

\* The identifiers relation_mapping holds for relation[3:] (none: a KeyError).
TypeIds(relations, relation) ==
    {k \in 1..Len(relations) : relations[k].relation = RelationName(relation)}

\* (id, type_id, source_id, target_id, weight)
AssertionRow(i, a, relations, order) ==
    [id |-> i,
     type |-> IF TypeIds(relations, a.type) = {} THEN 0 ELSE Min(TypeIds(relations, a.type)),
     source |-> IdOf(order, a.source), target |-> IdOf(order, a.target),
     weight |-> a.info.weight]

\* One iteration of the second loop of populate: how it ends for the assertion a
\* that is to become `row`.
AssertionEnd(a, relations, verify, rows, row) ==
    IF TypeIds(relations, a.type) = {} THEN "KeyError"
    ELSE IF a.info.json # "object" THEN "JSONDecodeError"
    ELSE IF ~AssertionInit(<<RelationName(a.type), a.source, a.target, a.info.weight>>)
    THEN "TypeError"
    ELSE IF Conflict("assertions", row, rows) THEN "IntegrityError"
    ELSE IF verify /\ AssertionStr(RelationName(a.type), Match[a.source], Match[a.target]) # a.uri
    THEN "RuntimeWarning"
    ELSE "ok"

\* The iteration has run its INSERT when it ends in the verification or well.
Inserted(status) == status \in {"RuntimeWarning", "ok"}

\* The second loop of populate, over enumerate(assertions.items(), start=1), from
\* slot i on: the assertions table and how the loop ends.
RECURSIVE AssertionLoop(_, _, _, _, _, _)
AssertionStep(assertions, relations, order, verify, rows, i, row, status) ==
    IF status = "ok"
    THEN AssertionLoop(assertions, relations, order, verify, rows \cup {row}, i + 1)
    ELSE [rows |-> IF Inserted(status) THEN rows \cup {row} ELSE rows, status |-> status]

AssertionLoop(assertions, relations, order, verify, rows, i) ==
    IF i > Len(assertions) THEN [rows |-> rows, status |-> "ok"]
    ELSE AssertionStep(assertions, relations, order, verify, rows, i,
                       AssertionRow(i, assertions[i], relations, order),
                       AssertionEnd(assertions[i], relations, verify, rows,
                                    AssertionRow(i, assertions[i], relations, order)))

\* What a populate call leaves: the connection's view, whether it has begun a
\* transaction, how it ended.
Left(db, began, status) == [view |-> db, began |-> began, status |-> status]

\* populate after the second loop, `loop` what the loop left.
AfterRelations(db, loop) == Left([db EXCEPT !.assertions = loop.rows], TRUE, loop.status)

\* populate from line 106 on, `r` the INSERT of the relation rows.
AfterConcepts(db, assertions, relations, verify, order, r) ==
    IF ~r.ok
    THEN Left([db EXCEPT !.relations = r.rows], TRUE, "IntegrityError")
    ELSE AfterRelations([db EXCEPT !.relations = r.rows],
                        AssertionLoop(assertions, relations, order, verify, db.assertions, 1))

\* populate from line 96 on, `status` the end of the first loop and `c` the
\* INSERT of the concept rows.
AfterConceptLoop(db, assertions, relations, verify, order, status, c) ==
    IF status # "ok" THEN Left(db, FALSE, status)
    ELSE IF ~db.exists THEN Left(db, FALSE, "OperationalError")
    ELSE IF ~c.ok THEN Left([db EXCEPT !.concepts = c.rows], TRUE, "IntegrityError")
    ELSE AfterConcepts([db EXCEPT !.concepts = c.rows], assertions, relations, verify, order,
                       InsertMany("relations", db.relations, RelationRows(relations), 1))

\* populate on the connection's view `db`, the set of concept URIs iterated in
\* `order`: the view it leaves, whether a transaction was begun, how it ended.
PopulateRun(db, assertions, relations, verify, order) ==
    AfterConceptLoop(db, assertions, relations, verify, order,
                     ConceptLoop(order, verify),
                     InsertMany("concepts", db.concepts, ConceptRows(order), 1))

\* A source C3 speaks of: every assertion of the namespace uses a listed relation,
\* concept URIs of the grammar and an info text with a weight.
WellFormed(assertions, relations) ==
    \A k \in 1..Len(assertions) :
        /\ \E j \in 1..Len(relations) : relations[j].relation = RelationName(assertions[k].type)
        /\ Match[assertions[k].source].found
        /\ Match[assertions[k].target].found
        /\ assertions[k].info.json = "object"

\* A Concept argument of a query; `given` is FALSE for an argument left None.
NoConcept == [given |-> FALSE, text |-> None, speech |-> None, suffix |-> None]
ConceptArg(text, speech, suffix) ==
    [given |-> TRUE, text |-> text, speech |-> speech, suffix |-> suffix]

\* The arguments of a query with every argument left None.
NoArgs == [type |-> None, source |-> NoConcept, target |-> NoConcept]

\* What a call that is no query leaves in `outcome`.
Ended(op, status) == [op |-> op, status |-> status, rows |-> {}, args |-> NoArgs]
NoOutcome == Ended("none", "ok")
NoCall == [verify |-> FALSE, fresh |-> FALSE, wellformed |-> FALSE, repeat |-> FALSE,
           stored |-> 0, unchanged |-> FALSE]
NothingLoaded == [valid |-> FALSE, assertions |-> <<>>, relations |-> <<>>]

StoreInit ==
    /\ disk = NoTables
    /\ view = NoTables
    /\ in_tx = FALSE
    /\ outcome = NoOutcome
    /\ call = NoCall
    /\ loaded = NothingLoaded
    /\ failed = {}
    /\ store_pc = "ready"
    /\ ExtractIdle
    /\ CodecIdle
    /\ ClauseIdle
    /\ PoolIdle

\* ConceptNetStore.create(reset). The DROPs run in the open transaction if there is
\* one; executescript first commits what is pending, then runs CREATE_SQL, which
\* fails on a table that exists.
Create(reset) ==
    /\ store_pc = "ready"
    /\ LET dropped == IF reset THEN NoTables ELSE view
       IN  IF dropped.exists
           THEN /\ disk' = dropped
                /\ view' = dropped
                /\ outcome' = Ended("create", "OperationalError")
           ELSE /\ disk' = CREATE_SQL
                /\ view' = CREATE_SQL
                /\ outcome' = Ended("create", "ok")
    /\ in_tx' = FALSE
    /\ call' = NoCall
    /\ loaded' = NothingLoaded
    /\ failed' = IF reset THEN {} ELSE failed
    /\ store_pc' = "returned"
    /\ UNCHANGED <<ex_vars, codec_vars, clause_vars, pool_vars>>

\* The source is the one whose rows an earlier populate committed, and nothing
\* was written since.
Repeats(assertions, relations) ==
    /\ loaded.valid
    /\ loaded.assertions = assertions
    /\ loaded.relations = relations
    /\ view = disk
    /\ Rows(disk) # {}

\* The end of populate: the commit of line 121, or the exception left to the caller.
PopulateEnd(assertions, relations, verify, run) ==
    /\ view' = run.view
    /\ disk' = IF run.status = "ok" THEN run.view ELSE disk
    /\ in_tx' = IF run.status = "ok" THEN FALSE ELSE (in_tx \/ run.began)
    /\ outcome' = Ended("populate", run.status)
    /\ call' = [verify |-> verify,
                fresh |-> view = CREATE_SQL /\ disk = CREATE_SQL,
                wellformed |-> WellFormed(assertions, relations),
                repeat |-> Repeats(assertions, relations),
                stored |-> Len(assertions),
                unchanged |-> run.view = view /\ (run.status = "ok" => run.view = disk)]
    /\ failed' = IF run.status = "ok" THEN failed
                  ELSE failed \cup (Rows(run.view) \ Rows(view))
    /\ loaded' = IF run.status = "ok"
                  THEN [valid |-> Rows(run.view) \ Rows(view) # {},
                        assertions |-> assertions, relations |-> relations]
                  ELSE loaded

\* populate once the assertions file is read into the dict.
PopulateLoaded(assertions, relations, verify) ==
    \E order \in Orders(ConceptSet(assertions)) :
        PopulateEnd(assertions, relations, verify,
                    PopulateRun(view, assertions, relations, verify, order))

\* ConceptNetStore.populate(assertions, relations, verify)
Populate(file, relations, verify) ==
    /\ store_pc = "ready"
    /\ PopulateLoaded(LoadAssertions(file, 1, <<>>), relations, verify)
    /\ store_pc' = "returned"
    /\ UNCHANGED <<ex_vars, codec_vars, clause_vars, pool_vars>>

\* The with-block of the caller ends without an exception: Connection.commit().
Commit ==
    /\ store_pc = "ready"
    /\ disk' = view
    /\ in_tx' = FALSE
    /\ outcome' = Ended("commit", "ok")
    /\ loaded' = IF view = disk THEN loaded ELSE NothingLoaded
    /\ store_pc' = "returned"
    /\ UNCHANGED <<view, call, failed>>
    /\ UNCHANGED <<ex_vars, codec_vars, clause_vars, pool_vars>>

\* The with-block of the caller ends with an exception: Connection.rollback().
Rollback ==
    /\ store_pc = "ready"
    /\ view' = disk
    /\ in_tx' = FALSE
    /\ outcome' = Ended("rollback", "ok")
    /\ failed' = failed \cap Rows(disk)
    /\ store_pc' = "returned"
    /\ UNCHANGED <<disk, loaded, call>>
    /\ UNCHANGED <<ex_vars, codec_vars, clause_vars, pool_vars>>

\* The caller takes the result, or catches the exception, and goes on.
Return ==
    /\ store_pc = "returned"
    /\ store_pc' = "ready"
    /\ outcome' = NoOutcome
    /\ call' = NoCall
    /\ UNCHANGED <<disk, view, in_tx, loaded, failed>>
    /\ UNCHANGED <<ex_vars, codec_vars, clause_vars, pool_vars>>

\* ---- the queries ----

\* A str-or-None argument as where_clause receives it.
PyValue(x) == IF x = None THEN NoneValue ELSE Scalar(x)

\* str(i) for the identifiers of the tables.
Digits == <<"1", "2", "3", "4", "5", "6", "7", "8", "9">>

\* tuple(ids): the identifiers in the order the rows are read, ascending.
RECURSIVE Ascending(_)
Ascending(ids) ==
    IF ids = {} THEN <<>> ELSE <<Digits[Min(ids)]>> \o Ascending(ids \ {Min(ids)})

SelectAssertions ==
    <<"SELECT assertions.id, relations.type AS relation, weight, cs.id AS source_id, cs.text, cs.speech, cs.suffix, ct.id AS target_id, ct.text, ct.speech, ct.suffix FROM assertions JOIN concepts AS cs ON cs.id == assertions.source JOIN concepts AS ct ON ct.id == assertions.target JOIN relations ON relations.id == assertions.type">>

\* ConceptNetStore.assertion_clause, source and target None or tuples.
assertion_clause(type, source, target) ==
    Query(SelectAssertions,
          where_clause(<<[field |-> "relation", value |-> type],
                         [field |-> "source_id", value |-> source],
                         [field |-> "target_id", value |-> target]>>))

\* SQLite's grammar of the list after IN: "(" ")" or "(" expr {", " expr} ")".
SqlListOk(list) ==
    /\ Len(list) >= 2
    /\ list[1] = "("
    /\ list[Len(list)] = ")"
    /\ LET inner == SubSeq(list, 2, Len(list) - 1)
       IN  \/ inner = <<>>
           \/ /\ Len(inner) % 2 = 1
              /\ \A k \in 1..Len(inner) :
                    IF k % 2 = 1 THEN inner[k] \notin {", ", ",", "(", ")"}
                    ELSE inner[k] = ", "

\* One clause of the WHERE text as SQLite parses it.
ParseClause(c) ==
    IF Len(c) = 2 /\ c[2] = " == ?"
    THEN [ok |-> TRUE, field |-> c[1], op |-> "==", items |-> <<>>]
    ELSE IF Len(c) >= 4 /\ c[2] = " IN " /\ SqlListOk(SubSeq(c, 3, Len(c)))
    THEN [ok |-> TRUE, field |-> c[1], op |-> "IN",
          items |-> ListElements(SubSeq(c, 3, Len(c)))]
    ELSE [ok |-> FALSE, field |-> c[1], op |-> "error", items |-> <<>>]

\* The rows of the three tables joined as the assertion query joins them.
Joined(db) ==
    {[id |-> a.id, relation |-> r.type, weight |-> a.weight,
      source_id |-> Digits[cs.id], source |-> [text |-> cs.text, speech |-> cs.speech,
                                                suffix |-> cs.suffix],
      target_id |-> Digits[ct.id], target |-> [text |-> ct.text, speech |-> ct.speech,
                                                suffix |-> ct.suffix]] :
        <<a, r, cs, ct>> \in
            {q \in db.assertions \X db.relations \X db.concepts \X db.concepts :
                q[2].id = q[1].type /\ q[3].id = q[1].source /\ q[4].id = q[1].target}}

\* The WHERE part of a statement as SQLite compiles it: its clauses.
Compile(sql) ==
    [k \in 1..Len(ClausesOf(SubSeq(sql, 3, Len(sql)))) |->
        ParseClause(ClausesOf(SubSeq(sql, 3, Len(sql)))[k])]

\* The placeholder of clause k: placeholders are numbered in the order of the text.
Slot(preds, k) == Cardinality({j \in 1..k : preds[j].op = "=="})

\* The row passes every clause. A comparison with NULL is not true.
Passes(preds, parameters, row) ==
    \A k \in 1..Len(preds) :
        IF preds[k].op = "=="
        THEN row[preds[k].field] = parameters[Slot(preds, k)].items[1]
        ELSE row[preds[k].field] \in Range(preds[k].items)

\* The compiled statement run over the rows `from`.
Run(db, from, preds, parameters) ==
    IF \E k \in 1..Len(preds) : ~preds[k].ok
    THEN [status |-> "OperationalError", rows |-> {}]
    ELSE IF ~db.exists
    THEN [status |-> "OperationalError", rows |-> {}]
    ELSE IF \E k \in 1..Len(parameters) : parameters[k].kind # "scalar"
    THEN [status |-> "ProgrammingError", rows |-> {}]
    ELSE [status |-> "ok", rows |-> {row \in from : Passes(preds, parameters, row)}]

\* self.execute(statement, parameters) of a SELECT: the statement is compiled, the
\* parameters are bound to the placeholders, the rows that pass are returned.
Execute(db, from, q) == Run(db, from, Compile(q.statement), q.params)

\* (i[0] for i in self.execute(statement, parameters))
IdsOf(result) == [status |-> result.status, ids |-> {row.id : row \in result.rows}]

\* ConceptNetStore.get_concepts_id(text, speech, suffix), its generator read to
\* the end.
get_concepts_id(db, c) ==
    IdsOf(Execute(db, db.concepts,
                  concept_clause(PyValue(c.text), PyValue(c.speech), PyValue(c.suffix))))

\* source = source and self.get_concepts_id(...)
Resolved(db, c) ==
    IF c.given THEN get_concepts_id(db, c) ELSE [status |-> "ok", ids |-> {}]

\* source and tuple(source): None stays None, the identifiers become a tuple.
TupleIfGiven(c, resolved) == IF c.given THEN TupleOf(Ascending(resolved.ids)) ELSE NoneValue

\* get_assertions and get_assertions_id once source and target are resolved.
QueryResolved(db, type, source, target, s, t) ==
    IF s.status # "ok" THEN [status |-> s.status, rows |-> {}]
    ELSE IF t.status # "ok" THEN [status |-> t.status, rows |-> {}]
    ELSE Execute(db, Joined(db),
                 assertion_clause(PyValue(type), TupleIfGiven(source, s), TupleIfGiven(target, t)))

\* The part get_assertions and get_assertions_id share: the rows of the query.
AssertionQuery(db, type, source, target) ==
    QueryResolved(db, type, source, target, Resolved(db, source), Resolved(db, target))

QueryTypes == {None, RelationRowIsA.relation}
QuerySources ==
    {NoConcept,
     ConceptArg(<<"a">>, None, None),
     ConceptArg(<<"a">>, <<"n">>, None),
     ConceptArg(<<"x">>, None, None)}
QueryTargets == {NoConcept, ConceptArg(<<"a">>, None, None)}

\* What a query leaves in `outcome`.
Answered(op, status, rows, args) == [op |-> op, status |-> status, rows |-> rows, args |-> args]

\* ConceptNetStore.get_concepts_id read to the end by the caller.
GetConceptsId(c) ==
    /\ store_pc = "ready"
    /\ outcome' = Answered("get_concepts_id", get_concepts_id(view, c).status,
                            get_concepts_id(view, c).ids, [NoArgs EXCEPT !.source = c])
    /\ store_pc' = "returned"
    /\ UNCHANGED <<disk, view, in_tx, call, loaded, failed>>
    /\ UNCHANGED <<ex_vars, codec_vars, clause_vars, pool_vars>>

\* (i[0] for i in self.execute(statement, parameters)) read to the end.
IdsAnswer(result, args) ==
    Answered("get_assertions_id", result.status, {row.id : row \in result.rows}, args)

\* ConceptNetStore.get_assertions_id read to the end by the caller.
GetAssertionsId(type, source, target) ==
    /\ store_pc = "ready"
    /\ outcome' = IdsAnswer(AssertionQuery(view, type, source, target),
                            [type |-> type, source |-> source, target |-> target])
    /\ store_pc' = "returned"
    /\ UNCHANGED <<disk, view, in_tx, call, loaded, failed>>
    /\ UNCHANGED <<ex_vars, codec_vars, clause_vars, pool_vars>>

\* Assertion(i[1], Concept(*i[4:7]), Concept(*i[8:11]), i[2]) for every row.
AssertionsBuilt(rows) ==
    \A row \in rows : AssertionInit(<<row.relation, row.source, row.target, row.weight>>)

\* (Assertion(...) for i in self.execute(statement, parameters)) read to the end.
AssertionsAnswer(result, args) ==
    IF result.status = "ok" /\ ~AssertionsBuilt(result.rows)
    THEN Answered("get_assertions", "TypeError", {}, args)
    ELSE Answered("get_assertions", result.status,
                  {[type |-> row.relation, source |-> row.source, target |-> row.target] :
                      row \in result.rows},
                  args)

\* ConceptNetStore.get_assertions read to the end by the caller.
GetAssertions(type, source, target) ==
    /\ store_pc = "ready"
    /\ outcome' = AssertionsAnswer(AssertionQuery(view, type, source, target),
                                   [type |-> type, source |-> source, target |-> target])
    /\ store_pc' = "returned"
    /\ UNCHANGED <<disk, view, in_tx, call, loaded, failed>>
    /\ UNCHANGED <<ex_vars, codec_vars, clause_vars, pool_vars>>

StoreNext ==
    \/ \E reset \in BOOLEAN : Create(reset)
    \/ \E file \in AssertionFiles, relations \in RelationFiles, verify \in BOOLEAN :
          Populate(file, relations, verify)
    \/ Commit
    \/ Rollback
    \/ \E c \in QuerySources \ {NoConcept} : GetConceptsId(c)
    \/ \E type \in QueryTypes, source \in QuerySources, target \in QueryTargets :
          GetAssertionsId(type, source, target)
    \/ \E type \in QueryTypes, source \in QuerySources, target \in QueryTargets :
          GetAssertions(type, source, target)
    \/ Return

StoreSpec == StoreInit /\ [][StoreNext]_vars

\* ---- properties of the store ----

\* C2: a row written by a populate call that raised is read neither on the
\* connection that wrote it nor on any other, and is never made durable: it is in
\* no table of the connection's view and in no table of the committed database.
C2_FailedPopulateLeavesNothing ==
    failed \cap (Rows(view) \cup Rows(disk)) = {}

\* C3: populate without verification, on the tables create has just made and a
\* source whose assertions of the namespace use listed relations and URIs of the
\* grammar, commits, and the assertions table holds one row per assertion of the
\* namespace, none else, the concepts table only concepts of those rows.
C3_PopulateStoresNamespace ==
    (/\ store_pc = "returned"
     /\ outcome.op = "populate"
     /\ call.fresh
     /\ ~call.verify
     /\ call.wellformed) =>
        /\ outcome.status = "ok"
        /\ disk = view
        /\ Cardinality(view.assertions) = call.stored
        /\ \A c \in view.concepts :
              \E a \in view.assertions : c.id \in {a.source, a.target}

\* C4: no two rows of the concepts table, as the connection sees it or as
\* committed, have the same (text, speech, suffix), an absent field being equal to
\* itself.
C4_ConceptTripleUnique ==
    \A db \in {view, disk} :
        \A r1, r2 \in db.concepts :
            (r1.text = r2.text /\ r1.speech = r2.speech /\ r1.suffix = r2.suffix)
                => r1 = r2

\* The identifiers a Concept argument stands for, an omitted field matching all.
Matching(db, c) ==
    {r.id : r \in {r \in db.concepts :
                      /\ r.text = c.text
                      /\ c.speech = None \/ r.speech = c.speech
                      /\ c.suffix = None \/ r.suffix = c.suffix}}

\* The joined rows a query is to return.
Expected(db, args) ==
    {row \in Joined(db) :
        /\ args.type = None \/ row.relation = args.type
        /\ args.source.given => \E i \in Matching(db, args.source) : row.source_id = Digits[i]
        /\ args.target.given => \E i \in Matching(db, args.target) : row.target_id = Digits[i]}

\* C5: on existing tables, get_assertions and get_assertions_id with a source or
\* target Concept that matches k concept rows return, for every k >= 0 and
\* without an error, exactly the assertions whose source or target is one of them.
C5_ResolvedQueryReturns ==
    (/\ store_pc = "returned"
     /\ outcome.op \in {"get_assertions", "get_assertions_id"}
     /\ view.exists
     /\ outcome.args.source.given \/ outcome.args.target.given) =>
        /\ outcome.status = "ok"
        /\ outcome.op = "get_assertions_id" =>
              outcome.rows = {row.id : row \in Expected(view, outcome.args)}
        /\ outcome.op = "get_assertions" =>
              outcome.rows = {[type |-> row.relation, source |-> row.source,
                               target |-> row.target] : row \in Expected(view, outcome.args)}

\* C9: populate of the source whose rows an earlier populate has committed to the
\* tables, with no create(reset=True) in between, raises the constraint error and
\* leaves the rows of the tables, as read and as committed, what they were.
C9_SecondPopulateRaises ==
    (/\ store_pc = "returned"
     /\ outcome.op = "populate"
     /\ call.repeat) =>
        /\ outcome.status = "IntegrityError"
        /\ call.unchanged
        /\ view = disk
        /\ Rows(disk) # {}

\* A second populate of a committed source has raised.
C9_Witness ==
    /\ store_pc = "returned"
    /\ outcome.op = "populate"
    /\ call.repeat
    /\ outcome.status = "IntegrityError"
    /\ disk.relations # {}

====
